---- MODULE Spec2Model ----
(***************************************************************************)
(* Model of pytriton/decorators.py: the inference-function decorators      *)
(* batch, group_by_keys, group_by_values, fill_optionals, pad_batch and    *)
(* first_value.                                                            *)
(*                                                                         *)
(* A tensor (numpy array) is a record [shape, data]: its shape tuple and   *)
(* its elements in row-major (C) order.  A dict is the sequence of its     *)
(* items [name, t] in insertion order.  A request is a record [id, items]: *)
(* id stands for the identity of the Python dict object, items for its     *)
(* contents.  Every decorator is one call: Init draws the call's           *)
(* arguments, the decorator's action runs the whole wrapper, recording     *)
(* every invocation of the wrapped callable in calls.                      *)
(***************************************************************************)
EXTENDS Integers, Sequences, FiniteSets

VARIABLES
    pc,         \* "ready" before the decorated callable is called, "done" after
    stage,      \* the decorator the callable is wrapped with
    req_list,   \* args[0]: the list of request dicts (mutable objects)
    kwargs,     \* the keyword arguments of the call (pad_batch, first_value)
    keys,       \* the decorator's *keys (group_by_values, first_value)
    defaults,   \* the decorator's **defaults (fill_optionals)
    config,     \* the model config reached through __triton_context__
    calls,      \* the invocations of the wrapped callable: [args, ret]
    status,     \* "ok", or the exception the call ended with
    result      \* the value the call returned

vars == <<pc, stage, req_list, kwargs, keys, defaults, config, calls, status, result>>

\* ---------------------------------------------------------------- bounds

MaxReqs == 3        \* longest request list handed to batch / group_by_keys
MaxBatch == 2       \* largest local batch size (axis-0 length) of a request
MaxSurplus == 1     \* rows the wrapped function may return beyond the input rows
MaxValueReqs == 2   \* longest request list handed to group_by_values
MaxBatchSize == 4   \* largest max_batch_size of a model config
MaxPreferred == 4   \* largest preferred batch size of a model config
MaxFillReqs == 2    \* longest request list handed to fill_optionals
MaxDim == 2         \* largest trailing dimension of a first_value input

\* ------------------------------------------------------- sequence helpers

Min(a, b) == IF a <= b THEN a ELSE b

Max(a, b) == IF a >= b THEN a ELSE b

RECURSIVE Prod(_)
Prod(s) == IF s = <<>> THEN 1 ELSE Head(s) * Prod(Tail(s))

RECURSIVE Sum(_)
Sum(s) == IF s = <<>> THEN 0 ELSE Head(s) + Sum(Tail(s))

RECURSIVE Flat(_)
Flat(ss) == IF ss = <<>> THEN <<>> ELSE Head(ss) \o Flat(Tail(ss))

Range(s) == {s[i] : i \in DOMAIN s}

\* tuple(...) / list(...): a sequence given by a rule, as the tuple of its elements.
Tuple(s) == s \o <<>>

\* All sequences over S of length lo..hi.
SeqsOf(S, lo, hi) == UNION {[1..n -> S] : n \in lo..hi}

\* Sequences without repetition over S, of length lo..hi (the key orders of a dict).
Perms(S, lo, hi) == {s \in SeqsOf(S, lo, hi) : \A i, j \in DOMAIN s : i # j => s[i] # s[j]}

\* ----------------------------------------------------------- numpy arrays

Tensor(shape, data) == [shape |-> shape, data |-> data]

\* ndarray.shape[0]
Rows(t) == t.shape[1]

\* Elements per axis-0 row: the product of the trailing dimensions.
RowSize(t) == Prod(Tail(t.shape))

\* Row i (0-based) of t, as its flattened elements.
RowData(t, i) == SubSeq(t.data, i * RowSize(t) + 1, (i + 1) * RowSize(t))

\* np.concatenate(ts) along axis 0; the trailing dimensions must agree.
ConcatOk(ts) == \A i \in DOMAIN ts : Tail(ts[i].shape) = Tail(ts[1].shape)

np_concatenate(ts) ==
    Tensor(<<Sum([i \in DOMAIN ts |-> Rows(ts[i])])>> \o Tail(ts[1].shape),
           Flat([i \in DOMAIN ts |-> ts[i].data]))

\* t[a:b, ...] for 0 <= a <= b: Python clamps both ends of a slice to the length.
SliceRows(t, a, b) ==
    LET lo == Min(a, Rows(t))
        hi == Min(b, Rows(t))
    IN  Tensor(<<hi - lo>> \o Tail(t.shape),
               SubSeq(t.data, lo * RowSize(t) + 1, hi * RowSize(t)))

\* -------------------------------------------------------------- dicts

Item(name, t) == [name |-> name, t |-> t]

\* dict.keys() as the ordered view, and as the set it compares as.
KeySeq(d) == [i \in DOMAIN d |-> d[i].name]

KeySet(d) == {d[i].name : i \in DOMAIN d}

HasKey(d, k) == k \in KeySet(d)

\* d[k] for a key the dict holds
Get(d, k) == d[CHOOSE i \in DOMAIN d : d[i].name = k].t

\* next(iter(d.values()))
FirstValue(d) == d[1].t

Request(id, items) == [id |-> id, items |-> items]

\* ------------------------------------------------------ convert_output

ErrKeys == "PytritonValidationError: Cannot batch requests with different set of inputs keys"

ErrOutLen == "PytritonValidationError: Outputs length different than config outputs length"

ErrOutType == "PytritonValidationError: Unsupported output type"

\* model_config.outputs: the declared output names, in order
ConfigOutputs == <<"y", "z">>

\* A value the wrapped function returns: kind "dict" (items: its items),
\* "tuple" (items: its elements, names unused) or "other" (anything else).
Ret(kind, items) == [kind |-> kind, items |-> items]

ConvertStatus(outputs) ==
    IF outputs.kind = "dict" THEN "ok"
    ELSE IF outputs.kind = "tuple"
         THEN IF Len(outputs.items) # Len(ConfigOutputs) THEN ErrOutLen ELSE "ok"
         ELSE ErrOutType

convert_output(outputs) ==
    IF outputs.kind = "dict" THEN outputs.items
    ELSE [i \in DOMAIN outputs.items |-> Item(ConfigOutputs[i], outputs.items[i].t)]

\* ---------------------------------------------------------------- batch

\* A comparison of the keys as ordered sequences instead.
KeysDifferByOrder(d1, d2) == KeySeq(d1) # KeySeq(d2)

\* input_names != req_dict2.keys(): dict key views compare as sets.
KeysDiffer(d1, d2) == KeySet(d1) # KeySet(d2)

\* The loop of lines 106-108: some later request's keys differ from the first's.
BatchKeysMismatch(rl) == \E i \in 2..Len(rl) : KeysDiffer(rl[1].items, rl[i].items)

\* Lines 110-113: per input name of the first request, the concatenation of
\* every request's tensor of that name, in request-list order.
BatchInputs(rl) ==
    [k \in DOMAIN rl[1].items |->
        Item(rl[1].items[k].name,
             np_concatenate([j \in DOMAIN rl |-> Get(rl[j].items, rl[1].items[k].name)]))]

BatchConcatOk(rl) ==
    \A k \in DOMAIN rl[1].items :
        ConcatOk([j \in DOMAIN rl |-> Get(rl[j].items, rl[1].items[k].name)])

\* request_batch_size: the axis-0 length of the request's first input.
RequestBatchSize(req) == Rows(FirstValue(req.items))

\* start_idx when the split loop reaches request i (1-based).
StartIdx(rl, i) == Sum([j \in 1..(i - 1) |-> RequestBatchSize(rl[j])])

\* Lines 123-135: each request's slice of every output.
BatchSplit(rl, outputs) ==
    [i \in DOMAIN rl |->
        [k \in DOMAIN outputs |->
            Item(outputs[k].name,
                 SliceRows(outputs[k].t, StartIdx(rl, i),
                           StartIdx(rl, i) + RequestBatchSize(rl[i])))]]

\* Total rows of the merged batch.
TotalRows(rl) == StartIdx(rl, Len(rl) + 1)

\* Outputs the wrapped function may return for a batch of n rows: "y" (rank 1)
\* with m rows and "z" (rank 2) with n rows, every row distinct.
IotaY(m) == Tensor(<<m>>, [i \in 1..m |-> i])

IotaZ(n) == Tensor(<<n, 2>>, [i \in 1..(2 * n) |-> 100 + i])

BatchReturns(n) ==
    {Ret("dict", <<Item("y", IotaY(m)), Item("z", IotaZ(n))>>) : m \in 0..(n + MaxSurplus)}
    \cup {Ret("tuple", <<Item("", IotaY(n)), Item("", IotaZ(n))>>),
          Ret("tuple", <<Item("", IotaY(n))>>),
          Ret("other", <<>>)}

Batch ==
    /\ pc = "ready"
    /\ stage = "batch"
    /\ pc' = "done"
    /\ IF BatchKeysMismatch(req_list)
       THEN /\ status' = ErrKeys
            /\ calls' = <<>>
            /\ result' = <<>>
       ELSE IF ~BatchConcatOk(req_list)
       THEN /\ status' = "ValueError"
            /\ calls' = <<>>
            /\ result' = <<>>
       ELSE \E ret \in BatchReturns(TotalRows(req_list)) :
            /\ calls' = <<[args |-> BatchInputs(req_list), ret |-> ret]>>
            /\ status' = ConvertStatus(ret)
            /\ result' = IF ConvertStatus(ret) = "ok"
                         THEN BatchSplit(req_list, convert_output(ret))
                         ELSE <<>>
    /\ UNCHANGED <<stage, req_list, kwargs, keys, defaults, config>>

\* The tensor request id carries under an input name: "a" of shape (b,),
\* "b" of shape (b, 2); no two rows of a request list are equal.
InputTensor(id, name, b) ==
    IF name = "a"
    THEN Tensor(<<b>>, [i \in 1..b |-> 10 * id + i])
    ELSE Tensor(<<b, 2>>, [i \in 1..(2 * b) |-> 100 * id + i])

\* The request at position id of a list: its keys in the order p, its batch size b.
RequestOf(id, p, b) == Request(id, [k \in DOMAIN p |-> Item(p[k], InputTensor(id, p[k], b))])

\* The kinds of request: every key order over the input names, with every
\* batch size up to maxbatch.
RequestKinds(maxbatch) == Perms({"a", "b"}, 1, 2) \X (1..maxbatch)

\* rl is a list of 1..maxlen requests, of any kind at every position.
IsRequestList(rl, maxlen, maxbatch) ==
    \E n \in 1..maxlen : \E ks \in [1..n -> RequestKinds(maxbatch)] :
        rl = [i \in 1..n |-> RequestOf(i, ks[i][1], ks[i][2])]

\* A model config: batcher (config.batcher is not None), preferred_set
\* (batcher.preferred_batch_size is not None), preferred_batch_size, max_batch_size.
Config(batcher, preferred_set, preferred, max) ==
    [batcher |-> batcher, preferred_set |-> preferred_set,
     preferred_batch_size |-> preferred, max_batch_size |-> max]

NoConfig == Config(FALSE, FALSE, <<>>, 0)

InitBatch ==
    /\ pc = "ready"
    /\ stage = "batch"
    /\ IsRequestList(req_list, MaxReqs, MaxBatch)
    /\ kwargs = <<>>
    /\ keys = <<>>
    /\ defaults = <<>>
    /\ config = NoConfig
    /\ calls = <<>>
    /\ status = "ok"
    /\ result = <<>>

SpecBatch == InitBatch /\ [][Batch]_vars

\* -------------------------------------------------- properties of batch

BatchDone == pc = "done" /\ stage = "batch"

UniformKeySets == \A i \in DOMAIN req_list : KeySet(req_list[i].items) = KeySet(req_list[1].items)

\* b(i) and b(1) + ... + b(i-1), from the request list itself
LocalBatch(i) == Rows(req_list[i].items[1].t)

RECURSIVE Offset(_)
Offset(i) == IF i = 1 THEN 0 ELSE Offset(i - 1) + LocalBatch(i - 1)

\* Every input handed to the wrapped function holds request j's rows at
\* b(1)+...+b(j-1) onwards, and nothing else.
MergedInputsInOrder ==
    \A k \in DOMAIN calls[1].args :
        LET name == calls[1].args[k].name
            merged == calls[1].args[k].t
        IN  /\ Rows(merged) = Offset(Len(req_list) + 1)
            /\ \A j \in DOMAIN req_list : \A r \in 0..(LocalBatch(j) - 1) :
                   RowData(merged, Offset(j) + r) = RowData(Get(req_list[j].items, name), r)

\* Request i holds, of every output, exactly the rows [Offset(i), Offset(i) + b(i)).
SplitIsExact(outputs) ==
    /\ Len(result) = Len(req_list)
    /\ \A i \in DOMAIN req_list : \A k \in DOMAIN outputs :
           /\ HasKey(result[i], outputs[k].name)
           /\ Rows(Get(result[i], outputs[k].name)) = LocalBatch(i)
           /\ \A r \in 0..(LocalBatch(i) - 1) :
                  /\ Offset(i) + r < Rows(outputs[k].t)
                  /\ RowData(Get(result[i], outputs[k].name), r)
                         = RowData(outputs[k].t, Offset(i) + r)

\* The slices together cover the merged output.
SplitCovers(outputs) ==
    \A k \in DOMAIN outputs : Rows(outputs[k].t) = Offset(Len(req_list) + 1)

\* C2: for a request list of uniform key-sets with local batch sizes b0, b1, ...,
\* batch invokes the wrapped function exactly once with every input the
\* concatenation of the requests' tensors in request-list order, and (when the
\* function's return value is a mapping or a sequence of the declared length)
\* returns per request exactly the rows [b0+...+b(i-1), b0+...+b(i)) of every
\* output, the slices covering the merged output.
C2_MergeSplit ==
    (BatchDone /\ UniformKeySets) =>
        /\ Len(calls) = 1
        /\ MergedInputsInOrder
        /\ ConvertStatus(calls[1].ret) = "ok" =>
               /\ status = "ok"
               /\ SplitIsExact(convert_output(calls[1].ret))
               /\ SplitCovers(convert_output(calls[1].ret))

\* C3: batch raises the key-set validation error exactly when some request's
\* key-set differs, as a set, from the first request's; it then has not invoked
\* the wrapped function and returns nothing.
C3_KeySetValidation ==
    BatchDone =>
        /\ (status = ErrKeys) <=> ~UniformKeySets
        /\ status = ErrKeys => (calls = <<>> /\ result = <<>>)

\* C3 witness: a list whose third request alone has another key-set was rejected.
C3_Witness ==
    /\ BatchDone
    /\ status = ErrKeys
    /\ Len(req_list) = 3
    /\ KeySet(req_list[2].items) = KeySet(req_list[1].items)
    /\ KeySeq(req_list[2].items) # KeySeq(req_list[1].items)
    /\ KeySet(req_list[3].items) # KeySet(req_list[1].items)

\* C4: when some output's axis-0 length differs from the sum of the requests'
\* local batch sizes, the call ends in an error instead of returning results.
C4_RowMismatchIsFatal ==
    (/\ BatchDone
     /\ Len(calls) = 1
     /\ ConvertStatus(calls[1].ret) = "ok"
     /\ ~SplitCovers(convert_output(calls[1].ret))) => status # "ok"

\* ------------------------------------------- sorting and itertools.groupby

\* Python's < on tuples of integers: lexicographic, a proper prefix first.
LexLess(a, b) ==
    \E i \in 1..(Min(Len(a), Len(b)) + 1) :
        /\ \A j \in 1..(i - 1) : a[j] = b[j]
        /\ \/ i > Len(a) /\ i <= Len(b)
           \/ i <= Len(a) /\ i <= Len(b) /\ a[i] < b[i]

\* < on (shape, flattened) pairs, the components of a group_by_values key.
PairLess(p, q) == LexLess(p[1], q[1]) \/ (p[1] = q[1] /\ LexLess(p[2], q[2]))

\* < on tuples of such pairs.
KeyLess(k1, k2) ==
    \E i \in 1..(Min(Len(k1), Len(k2)) + 1) :
        /\ \A j \in 1..(i - 1) : k1[j] = k2[j]
        /\ \/ i > Len(k1) /\ i <= Len(k2)
           \/ i <= Len(k1) /\ i <= Len(k2) /\ PairLess(k1[i], k2[i])

\* list.sort(key=itemgetter(1)) on entries [idx, key, input]: ascending and
\* stable, so entries of equal key keep their order.  Entry i moves behind
\* every entry of smaller key and every earlier entry of equal key.
\* For group_by_keys the keys are tuples of names:
SortByKeyTuple(entries) ==
    LET Before(j, i) ==
            \/ LexLess(entries[j].key, entries[i].key)
            \/ entries[j].key = entries[i].key /\ j < i
        place == Tuple([i \in DOMAIN entries |-> Cardinality({j \in DOMAIN entries : Before(j, i)}) + 1])
    IN  Tuple([p \in DOMAIN entries |-> entries[CHOOSE i \in DOMAIN entries : place[i] = p]])

\* and for group_by_values tuples of (shape, flattened) pairs.
SortByReqKey(entries) ==
    LET Before(j, i) ==
            \/ KeyLess(entries[j].key, entries[i].key)
            \/ entries[j].key = entries[i].key /\ j < i
        place == Tuple([i \in DOMAIN entries |-> Cardinality({j \in DOMAIN entries : Before(j, i)}) + 1])
    IN  Tuple([p \in DOMAIN entries |-> entries[CHOOSE i \in DOMAIN entries : place[i] = p]])

\* itertools.groupby(entries, key=itemgetter(1)): the maximal runs of
\* consecutive entries of equal key, in order.
RECURSIVE GroupBy(_)
GroupBy(entries) ==
    IF entries = <<>> THEN <<>>
    ELSE LET rest == GroupBy(Tail(entries))
         IN  IF rest # <<>> /\ Head(rest)[1].key = Head(entries).key
             THEN <<<<Head(entries)>> \o Head(rest)>> \o Tail(rest)
             ELSE <<<<Head(entries)>>>> \o rest

\* idx_groups_res left in the order the groups were processed.
KeepGroupOrder(pairs) == Tuple([p \in DOMAIN pairs |-> pairs[p].res])

\* idx_groups_res.sort(key=itemgetter(0)); res_flat = [r[1] for r in ...]
RestoreOrder(pairs) ==
    LET place == Tuple([i \in DOMAIN pairs |-> Cardinality({j \in DOMAIN pairs :
                        pairs[j].idx < pairs[i].idx \/ (pairs[j].idx = pairs[i].idx /\ j < i)}) + 1])
    IN  Tuple([p \in DOMAIN pairs |-> pairs[CHOOSE i \in DOMAIN pairs : place[i] = p].res])

\* The wrapped stage: one result per request of the sublist it is given, in
\* that order; a result names the request it was computed for and the call.
StageResult(sample_list, call) ==
    Tuple([p \in DOMAIN sample_list |-> [req |-> sample_list[p].id, call |-> call]])

\* The loop over the groups (lines 167-171, 192-196): one invocation per group.
GroupCalls(groups) ==
    Tuple([c \in DOMAIN groups |->
        LET sample_list == Tuple([p \in DOMAIN groups[c] |-> groups[c][p].input])
        IN  [args |-> sample_list, ret |-> StageResult(sample_list, c)]])

\* zip(idx, out) of every group, appended in group order.
GroupPairs(groups, group_calls) ==
    Flat([c \in DOMAIN groups |->
            Tuple([p \in 1..Min(Len(groups[c]), Len(group_calls[c].ret)) |->
                [idx |-> groups[c][p].idx, res |-> group_calls[c].ret[p]]])])

\* ------------------------------------------------------- group_by_keys

NameOrd(name) == IF name = "a" THEN 1 ELSE IF name = "b" THEN 2 ELSE 3

\* tuple(input.keys()): the names in the dict's own order.
UnsortedKeyTuple(d) == Tuple([i \in DOMAIN d |-> NameOrd(d[i].name)])

\* tuple(sorted(input.keys())): the names in ascending order, each name held
\* as its rank in the order of strings.
SortedKeyTuple(d) ==
    LET place == Tuple([i \in DOMAIN d |->
                        Cardinality({j \in DOMAIN d : NameOrd(d[j].name) < NameOrd(d[i].name)}) + 1])
    IN  Tuple([p \in DOMAIN d |-> NameOrd(d[CHOOSE i \in DOMAIN d : place[i] = p].name)])

KeyEntries(inputs) ==
    Tuple([i \in DOMAIN inputs |->
        [idx |-> i - 1, key |-> SortedKeyTuple(inputs[i].items), input |-> inputs[i]]])

GroupByKeys ==
    /\ pc = "ready"
    /\ stage = "group_by_keys"
    /\ pc' = "done"
    /\ LET groups == GroupBy(SortByKeyTuple(KeyEntries(req_list)))
           group_calls == GroupCalls(groups)
       IN  /\ calls' = group_calls
           /\ result' = RestoreOrder(GroupPairs(groups, group_calls))
    /\ status' = "ok"
    /\ UNCHANGED <<stage, req_list, kwargs, keys, defaults, config>>

InitGroupByKeys ==
    /\ pc = "ready"
    /\ stage = "group_by_keys"
    /\ IsRequestList(req_list, MaxReqs, 1)
    /\ kwargs = <<>>
    /\ keys = <<>>
    /\ defaults = <<>>
    /\ config = NoConfig
    /\ calls = <<>>
    /\ status = "ok"
    /\ result = <<>>

\* ------------------------------------------------------ group_by_values

\* The distinct axis-0 rows of t.
DistinctRows(t) == {RowData(t, i) : i \in 0..(Rows(t) - 1)}

\* np.unique(t, axis=0): the distinct rows, in ascending lexicographic order.
np_unique(t) ==
    LET rows == DistinctRows(t)
        sorted == Tuple([p \in 1..Cardinality(rows) |->
                            CHOOSE r \in rows : Cardinality({q \in rows : LexLess(q, r)}) + 1 = p])
    IN  Tensor(<<Cardinality(rows)>> \o Tail(t.shape), Flat(sorted))

\* The component for an absent key: ((-1,), (-1,)).
Sentinel == <<<<-1>>, <<-1>>>>

\* The component built from the flattened values alone.
FlatOnlyComponent(t) == LET arr == np_unique(t) IN <<<<>>, arr.data>>

\* (arr.shape, tuple(arr.flatten())) of arr = np.unique(input[key], axis=0)
ValueComponent(t) == LET arr == np_unique(t) IN <<arr.shape, arr.data>>

\* req_key: one component per requested key (lines 154-162).
ReqKey(input, ks) ==
    Tuple([k \in DOMAIN ks |->
        IF HasKey(input, ks[k]) THEN ValueComponent(Get(input, ks[k])) ELSE Sentinel])

ValueEntries(inputs, ks) ==
    Tuple([i \in DOMAIN inputs |->
        [idx |-> i - 1, key |-> ReqKey(inputs[i].items, ks), input |-> inputs[i]]])

GroupByValues ==
    /\ pc = "ready"
    /\ stage = "group_by_values"
    /\ pc' = "done"
    /\ LET groups == GroupBy(SortByReqKey(ValueEntries(req_list, keys)))
           group_calls == GroupCalls(groups)
       IN  /\ calls' = group_calls
           /\ result' = RestoreOrder(GroupPairs(groups, group_calls))
    /\ status' = "ok"
    /\ UNCHANGED <<stage, req_list, kwargs, keys, defaults, config>>

\* The values a grouping input takes.
Values == {0, 1}

\* Tensors of input "a": every vector of one or two values, and every
\* single-row matrix of two values.
ATensors ==
    {Tensor(<<Len(d)>>, d) : d \in SeqsOf(Values, 1, 2)}
    \cup {Tensor(<<1, 2>>, d) : d \in SeqsOf(Values, 2, 2)}

\* Tensors of input "b": n rows of one value.
BTensors(n) == {Tensor(<<n>>, [i \in 1..n |-> v]) : v \in Values}

ValueItems ==
    {<<Item("a", ta)>> : ta \in ATensors}
    \cup UNION {{<<Item("b", tb)>> : tb \in BTensors(n)} : n \in 1..2}
    \cup UNION {{<<Item("a", ta), Item("b", tb)>> : tb \in BTensors(Rows(ta))} : ta \in ATensors}

IsValueRequestList(rl, maxlen) ==
    \E n \in 1..maxlen : \E its \in [1..n -> ValueItems] :
        rl = [i \in 1..n |-> Request(i, its[i])]

InitGroupByValues ==
    /\ pc = "ready"
    /\ stage = "group_by_values"
    /\ IsValueRequestList(req_list, MaxValueReqs)
    /\ kwargs = <<>>
    /\ keys \in {<<"a">>, <<"a", "b">>}
    /\ defaults = <<>>
    /\ config = NoConfig
    /\ calls = <<>>
    /\ status = "ok"
    /\ result = <<>>

SpecGroup == (InitGroupByKeys \/ InitGroupByValues) /\ [][GroupByKeys \/ GroupByValues]_vars

\* ------------------------------------- properties of the grouping decorators

GroupDone == pc = "done" /\ stage \in {"group_by_keys", "group_by_values"}

SameCall(i, j) ==
    \E c \in DOMAIN calls : \E p, q \in DOMAIN calls[c].args :
        calls[c].args[p].id = req_list[i].id /\ calls[c].args[q].id = req_list[j].id

\* C1: with a wrapped stage that returns one result per request of its
\* sublist, in order, both grouping decorators return as many results as
\* requests, and result i is the one the wrapped stage produced for request i.
C1_OrderRoundTrip ==
    GroupDone =>
        /\ Len(result) = Len(req_list)
        /\ \A i \in DOMAIN req_list :
               \E c \in DOMAIN calls : \E p \in DOMAIN calls[c].args :
                   /\ calls[c].args[p] = req_list[i]
                   /\ result[i] = calls[c].ret[p]

\* C1 witness: a list the grouping reordered (the first call starts with a
\* later request than the second) came back in input order.
C1_Witness ==
    /\ GroupDone
    /\ Len(calls) >= 2
    /\ calls[1].args[1].id > calls[2].args[1].id
    /\ Len(result) = Len(req_list)
    /\ \A i \in DOMAIN req_list : result[i].req = req_list[i].id

\* Two requests agree on grouping key k: both lack it, or both hold it with
\* the same set of distinct rows of the same row shape.
AgreeOn(d1, d2, k) ==
    \/ ~HasKey(d1, k) /\ ~HasKey(d2, k)
    \/ /\ HasKey(d1, k) /\ HasKey(d2, k)
       /\ Tail(Get(d1, k).shape) = Tail(Get(d2, k).shape)
       /\ DistinctRows(Get(d1, k)) = DistinctRows(Get(d2, k))

\* C7: group_by_values passes two requests in the same invocation exactly
\* when they agree on every grouping key.
C7_ValueGroups ==
    (pc = "done" /\ stage = "group_by_values") =>
        \A i, j \in DOMAIN req_list :
            SameCall(i, j) <=>
                \A k \in DOMAIN keys : AgreeOn(req_list[i].items, req_list[j].items, keys[k])

\* C7 witness: under keys (a, b), two requests holding both keys, whose "a"
\* tensors differ as arrays but hold the same distinct rows, shared a call.
C7_Witness ==
    /\ pc = "done" /\ stage = "group_by_values"
    /\ keys = <<"a", "b">>
    /\ Len(req_list) = 2
    /\ HasKey(req_list[1].items, "a") /\ HasKey(req_list[2].items, "a")
    /\ Get(req_list[1].items, "a") # Get(req_list[2].items, "a")
    /\ HasKey(req_list[1].items, "b") /\ HasKey(req_list[2].items, "b")
    /\ SameCall(1, 2)

\* C8: group_by_keys invokes the wrapped stage once per distinct key-set; each
\* invocation receives all and only the requests of one key-set, in their
\* original relative order.
C8_KeySetGroups ==
    (pc = "done" /\ stage = "group_by_keys") =>
        /\ Len(calls) = Cardinality({KeySet(req_list[i].items) : i \in DOMAIN req_list})
        /\ \A c \in DOMAIN calls :
               LET args == calls[c].args
                   members == {i \in DOMAIN req_list :
                                  KeySet(req_list[i].items) = KeySet(args[1].items)}
               IN  /\ Len(args) = Cardinality(members)
                   /\ \A p \in DOMAIN args : \E i \in members : args[p] = req_list[i]
                   /\ \A p, q \in DOMAIN args : p < q => args[p].id < args[q].id

\* C8 witness: requests 1 and 3 share a key-set, given in different key
\* orders, request 2 has another; 1 and 3 went together, 2 alone.
C8_Witness ==
    /\ pc = "done" /\ stage = "group_by_keys"
    /\ Len(req_list) = 3
    /\ KeySeq(req_list[1].items) = <<"a", "b">>
    /\ KeySeq(req_list[2].items) = <<"a">>
    /\ KeySeq(req_list[3].items) = <<"b", "a">>
    /\ Len(calls) = 2
    /\ SameCall(1, 3)
    /\ ~SameCall(1, 2)

\* ------------------------------------------------------------ pad_batch

ContextKey == "__triton_context__"

\* {k: v for k, v in kwargs.items() if k != "__triton_context__"}
TensorInputs(kw) == SelectSeq(kw, LAMBDA it : it.name # ContextKey)

\* sorted(xs) for a list of integers
SortedInts(xs) ==
    LET place == Tuple([i \in DOMAIN xs |->
                        Cardinality({j \in DOMAIN xs : xs[j] < xs[i] \/ (xs[j] = xs[i] /\ j < i)}) + 1])
    IN  Tuple([p \in DOMAIN xs |-> xs[CHOOSE i \in DOMAIN xs : place[i] = p]])

\* Lines 250-255: the sorted preferred sizes, if any, then max_batch_size.
BatchSizes(cfg) ==
    (IF ~cfg.batcher \/ ~cfg.preferred_set THEN <<>> ELSE SortedInts(cfg.preferred_batch_size))
        \o <<cfg.max_batch_size>>

\* bisect's binary search over a[lo:hi] (0-based), going right on a[mid] <= x.
RECURSIVE BisectRightFrom(_, _, _, _)
BisectRightFrom(a, x, lo, hi) ==
    IF lo >= hi THEN lo
    ELSE LET mid == (lo + hi) \div 2
         IN  IF a[mid + 1] <= x THEN BisectRightFrom(a, x, mid + 1, hi)
             ELSE BisectRightFrom(a, x, lo, mid)

\* bisect_left's search: going right on a[mid] < x.
RECURSIVE BisectLeftFrom(_, _, _, _)
BisectLeftFrom(a, x, lo, hi) ==
    IF lo >= hi THEN lo
    ELSE LET mid == (lo + hi) \div 2
         IN  IF a[mid + 1] < x THEN BisectLeftFrom(a, x, mid + 1, hi)
             ELSE BisectLeftFrom(a, x, lo, mid)

bisect_right(a, x) == BisectRightFrom(a, x, 0, Len(a))

\* bisect_left(a, x): a 0-based index into a
bisect_left(a, x) == BisectLeftFrom(a, x, 0, Len(a))

\* The surplus given to the first row instead of the last.
RepeatCountsFirst(n, batch_size) == [i \in 1..n |-> IF i = 1 THEN batch_size - n + 1 ELSE 1]

\* np.concatenate([np.ones(n - 1), np.array([batch_size - n + 1])])
RepeatCounts(n, batch_size) == [i \in 1..n |-> IF i = n THEN batch_size - n + 1 ELSE 1]

\* np.repeat(t, counts, axis=0): row i, counts[i] times, rows in order.
np_repeat(t, counts) ==
    Tensor(<<Sum(counts)>> \o Tail(t.shape),
           Flat([i \in 1..Rows(t) |-> Flat([c \in 1..counts[i] |-> RowData(t, i - 1)])]))

\* kwargs.update(new_inputs): every tensor input replaced, the rest kept.
PadInputs(kw, batch_size) ==
    [k \in DOMAIN kw |->
        IF kw[k].name = ContextKey THEN kw[k]
        ELSE Item(kw[k].name, np_repeat(kw[k].t, RepeatCounts(Rows(kw[k].t), batch_size)))]

\* What the wrapped function returns for the inputs it is called with.
FnReturn(inputs) == Ret("dict", <<Item("y", IotaY(Rows(FirstValue(TensorInputs(inputs)))))>>)

PadBatch ==
    /\ pc = "ready"
    /\ stage = "pad_batch"
    /\ pc' = "done"
    /\ LET first_input == FirstValue(TensorInputs(kwargs))
           batch_sizes == BatchSizes(config)
           index == bisect_left(batch_sizes, Rows(first_input))
       IN  IF index >= Len(batch_sizes)
           THEN /\ status' = "IndexError"
                /\ calls' = <<>>
                /\ result' = <<>>
           ELSE LET new_kwargs == PadInputs(kwargs, batch_sizes[index + 1])
                IN  /\ status' = "ok"
                    /\ calls' = <<[args |-> new_kwargs, ret |-> FnReturn(new_kwargs)]>>
                    /\ result' = <<FnReturn(new_kwargs)>>
    /\ UNCHANGED <<stage, req_list, kwargs, keys, defaults, config>>

\* The context object is no tensor; it is held as an empty one.
ContextItem == Item(ContextKey, Tensor(<<>>, <<>>))

\* The keyword arguments of a batch of n rows: "a" alone, "a" and "b", or
\* either behind the injected context.
BatchKwargs(n) ==
    {<<Item("a", InputTensor(0, "a", n))>>,
     <<Item("b", InputTensor(0, "b", n)), Item("a", InputTensor(0, "a", n))>>,
     <<ContextItem, Item("a", InputTensor(0, "a", n)), Item("b", InputTensor(0, "b", n))>>}

Configs ==
    {Config(FALSE, FALSE, <<>>, m) : m \in 1..MaxBatchSize}
    \cup {Config(TRUE, FALSE, <<>>, m) : m \in 1..MaxBatchSize}
    \cup {Config(TRUE, TRUE, p, m) : p \in SeqsOf(1..MaxPreferred, 0, 2), m \in 1..MaxBatchSize}

InitPadBatch ==
    /\ pc = "ready"
    /\ stage = "pad_batch"
    /\ req_list = <<>>
    /\ kwargs \in UNION {BatchKwargs(n) : n \in 1..(MaxBatchSize + 1)}
    /\ keys = <<>>
    /\ defaults = <<>>
    /\ config \in Configs
    /\ calls = <<>>
    /\ status = "ok"
    /\ result = <<>>

SpecPad == InitPadBatch /\ [][PadBatch]_vars

\* ----------------------------------------------- properties of pad_batch

PadDone == pc = "done" /\ stage = "pad_batch"

\* The current batch size, and the batch-size policy as a set.
CurrentSize == Rows(FirstValue(TensorInputs(kwargs)))

Policy ==
    {config.max_batch_size}
    \cup (IF config.batcher /\ config.preferred_set THEN Range(config.preferred_batch_size) ELSE {})

\* The smallest policy value >= the current size
TargetSize == CHOOSE v \in Policy : v >= CurrentSize /\ \A w \in Policy : w >= CurrentSize => v <= w

PaddedTo(size) ==
    /\ status = "ok"
    /\ Len(calls) = 1
    /\ \A k \in DOMAIN calls[1].args :
           calls[1].args[k].name # ContextKey => Rows(calls[1].args[k].t) = size

\* C5, as stated: for any preferred sizes and any current size up to the
\* maximum, every input reaches the wrapped function with the smallest policy
\* value >= the current size as its axis-0 length.
C5_SmallestPolicyValue ==
    (PadDone /\ CurrentSize <= config.max_batch_size) => PaddedTo(TargetSize)

\* C5, amended: the same, for configurations whose preferred sizes do not
\* exceed the maximum batch size.
C5_SmallestPolicyValueValidConfig ==
    (/\ PadDone
     /\ CurrentSize <= config.max_batch_size
     /\ \A v \in Policy : v <= config.max_batch_size) => PaddedTo(TargetSize)

\* C5 witness: two preferred sizes given in descending order, the current
\* size above both and below the maximum: the batch was padded to the maximum.
C5_Witness ==
    /\ PadDone
    /\ config.batcher /\ config.preferred_set
    /\ Len(config.preferred_batch_size) = 2
    /\ config.preferred_batch_size[1] > config.preferred_batch_size[2]
    /\ \A v \in Range(config.preferred_batch_size) : v < CurrentSize
    /\ CurrentSize < config.max_batch_size
    /\ PaddedTo(config.max_batch_size)

\* C6: a batch of n rows padded to t >= n rows keeps rows 0..n-1 in order,
\* and rows n..t-1 all equal the original last row; with t = n it is unchanged.
C6_PadRepeatsLastRow ==
    (PadDone /\ status = "ok") =>
        \A k \in DOMAIN kwargs :
            LET orig == kwargs[k].t
                new == calls[1].args[k].t
                n == Rows(orig)
            IN  /\ calls[1].args[k].name = kwargs[k].name
                /\ kwargs[k].name # ContextKey =>
                       /\ Rows(new) >= n
                       /\ Tail(new.shape) = Tail(orig.shape)
                       /\ Len(new.data) = Rows(new) * RowSize(orig)
                       /\ \A r \in 0..(n - 1) : RowData(new, r) = RowData(orig, r)
                       /\ \A r \in n..(Rows(new) - 1) : RowData(new, r) = RowData(orig, n - 1)
                       /\ Rows(new) = n => new = orig

\* C6 witness: a batch of two rows, with a matrix input, was padded by one row or more.
C6_Witness ==
    /\ PadDone
    /\ status = "ok"
    /\ CurrentSize = 2
    /\ HasKey(kwargs, "b")
    /\ Rows(Get(calls[1].args, "b")) > 2

\* -------------------------------------------------------- fill_optionals

\* np.tile(val, [batch_size, 1, ..., 1]) with one 1 per dimension of val:
\* val repeated batch_size times along a new leading axis.
np_tile(val, batch_size) ==
    Tensor(<<batch_size>> \o val.shape, Flat([i \in 1..batch_size |-> val.data]))

\* Every default written, also over a key the request supplies.
FillRequestOverwriting(items, dflts) ==
    LET batch_size == Rows(FirstValue(items))
        missing == SelectSeq(dflts, LAMBDA d : ~HasKey(items, d.name))
    IN  [k \in DOMAIN items |->
            IF HasKey(dflts, items[k].name)
            THEN Item(items[k].name, np_tile(Get(dflts, items[k].name), batch_size))
            ELSE items[k]]
        \o [k \in DOMAIN missing |-> Item(missing[k].name, np_tile(missing[k].t, batch_size))]

\* Lines 216-223 for one request: each default key the request lacks is
\* appended, in the order of the defaults, tiled to the request's batch size.
FillRequest(items, dflts) ==
    LET batch_size == Rows(FirstValue(items))
        missing == SelectSeq(dflts, LAMBDA d : ~HasKey(items, d.name))
    IN  items \o [k \in DOMAIN missing |-> Item(missing[k].name, np_tile(missing[k].t, batch_size))]

FillOptionals ==
    /\ pc = "ready"
    /\ stage = "fill_optionals"
    /\ pc' = "done"
    /\ req_list' = [i \in DOMAIN req_list |->
                       Request(req_list[i].id, FillRequest(req_list[i].items, defaults))]
    /\ calls' = <<[args |-> req_list', ret |-> StageResult(req_list', 1)]>>
    /\ result' = StageResult(req_list', 1)
    /\ status' = "ok"
    /\ UNCHANGED <<stage, kwargs, keys, defaults, config>>

\* The default values of a key, without batch axis: a scalar or a vector.
DefaultValues(name) ==
    IF name = "b" THEN {Tensor(<<>>, <<7>>), Tensor(<<2>>, <<8, 9>>)}
    ELSE {Tensor(<<>>, <<-7>>), Tensor(<<3>>, <<-1, -2, -3>>)}

\* The default tables over the optional inputs "b" and "c", in any order.
DefaultTables ==
    {d \in UNION {[1..n -> UNION {{Item(name, v) : v \in DefaultValues(name)} : name \in {"b", "c"}}] :
                     n \in 1..2} :
        \A i, j \in DOMAIN d : i # j => d[i].name # d[j].name}

InitFillOptionals ==
    /\ pc = "ready"
    /\ stage = "fill_optionals"
    /\ IsRequestList(req_list, MaxFillReqs, MaxBatch)
    /\ kwargs = <<>>
    /\ keys = <<>>
    /\ defaults \in DefaultTables
    /\ config = NoConfig
    /\ calls = <<>>
    /\ status = "ok"
    /\ result = <<>>

SpecFill == InitFillOptionals /\ [][FillOptionals]_vars

\* ------------------------------------------- properties of fill_optionals

\* What the call makes of one request: every key it had, unchanged; every
\* key of the defaults present; a key it lacked holds batch-size copies of
\* the default along a new leading axis; no other key.
FilledFrom(old, new) ==
    LET b == Rows(old[1].t)
    IN  /\ \A k \in DOMAIN old : HasKey(new, old[k].name) /\ Get(new, old[k].name) = old[k].t
        /\ \A d \in DOMAIN defaults :
               /\ HasKey(new, defaults[d].name)
               /\ ~HasKey(old, defaults[d].name) =>
                      LET t == Get(new, defaults[d].name)
                      IN  /\ t.shape = <<b>> \o defaults[d].t.shape
                          /\ \A r \in 0..(b - 1) : RowData(t, r) = defaults[d].t.data
        /\ KeySet(new) = KeySet(old) \cup KeySet(defaults)
        /\ Len(new) = Cardinality(KeySet(new))

\* C9: fill_optionals leaves every request with every default key, the
\* absent ones tiled to the request's batch size, the present ones untouched,
\* and calls the wrapped stage once with the same list in the same order.
C9_FillOptionals ==
    [][(stage = "fill_optionals" /\ pc = "ready" /\ pc' = "done") =>
          /\ Len(req_list') = Len(req_list)
          /\ \A i \in DOMAIN req_list :
                 /\ req_list'[i].id = req_list[i].id
                 /\ FilledFrom(req_list[i].items, req_list'[i].items)
          /\ Len(calls') = 1
          /\ calls'[1].args = req_list']_vars

\* C9 witness: with defaults for "b" (a vector) and "c", a request of batch
\* size 2 that supplied its own "b" was handed on with that "b" and a filled "c".
C9_Witness ==
    /\ pc = "done" /\ stage = "fill_optionals"
    /\ Len(calls) = 1
    /\ HasKey(defaults, "b") /\ HasKey(defaults, "c")
    /\ Get(defaults, "b").shape = <<2>>
    /\ KeySeq(calls[1].args[1].items) = <<"b", "a", "c">>
    /\ Get(calls[1].args[1].items, "b").shape = <<2, 2>>
    /\ Rows(Get(calls[1].args[1].items, "c")) = 2

\* ---------------------------------------------------------- first_value

\* A keyword argument as the wrapped function receives it: an array, or
\* (scalar) a bare Python scalar held in data[1].
Arg(name, t, scalar) == [name |-> name, t |-> t, scalar |-> scalar]

\* max(shape) of a non-empty shape tuple
RECURSIVE MaxOf(_)
MaxOf(shape) == IF Len(shape) = 1 THEN shape[1] ELSE Max(Head(shape), MaxOf(Tail(shape)))

\* t[0]: the first axis-0 row, of one rank less.
FirstRow(t) == Tensor(Tail(t.shape), RowData(t, 0))

\* Lines 287-290 for one key: how the step ends.
FirstValueStatus(t) ==
    IF Rows(t) = 0 THEN "IndexError"
    ELSE IF FirstRow(t).shape = <<>> THEN "ValueError: max() arg is an empty sequence"
    ELSE "ok"

\* Lines 287-290 for one key: the value left in inputs[key].
FirstValueOf(name, t) ==
    LET res == FirstRow(t)
    IN  IF MaxOf(res.shape) = 1
        THEN Arg(name, Tensor(<<>>, <<res.data[1]>>), TRUE)
        ELSE Arg(name, res, FALSE)

\* The first key of ks, in order, whose step raises; 0 if none does.
FirstFailing(kw, ks) ==
    LET Fails(i) == ~HasKey(TensorInputs(kw), ks[i]) \/ FirstValueStatus(Get(kw, ks[i])) # "ok"
    IN  IF \E i \in DOMAIN ks : Fails(i)
        THEN CHOOSE i \in DOMAIN ks : Fails(i) /\ \A j \in 1..(i - 1) : ~Fails(j)
        ELSE 0

FirstValueDecorator ==
    /\ pc = "ready"
    /\ stage = "first_value"
    /\ pc' = "done"
    /\ LET bad == FirstFailing(kwargs, keys)
       IN  IF bad # 0
           THEN /\ status' = IF ~HasKey(TensorInputs(kwargs), keys[bad]) THEN "KeyError"
                             ELSE FirstValueStatus(Get(kwargs, keys[bad]))
                /\ calls' = <<>>
                /\ result' = <<>>
           ELSE LET new_kwargs ==
                        [k \in DOMAIN kwargs |->
                            IF kwargs[k].name \in Range(keys)
                            THEN FirstValueOf(kwargs[k].name, kwargs[k].t)
                            ELSE Arg(kwargs[k].name, kwargs[k].t, FALSE)]
                IN  /\ status' = "ok"
                    /\ calls' = <<[args |-> new_kwargs, ret |-> Ret("dict", <<>>)]>>
                    /\ result' = <<Ret("dict", <<>>)>>
    /\ UNCHANGED <<stage, req_list, kwargs, keys, defaults, config>>

\* Shapes of rank 1 to 3 with n rows and trailing dimensions 1..MaxDim.
ShapesOf(n) ==
    {<<n>>} \cup {<<n, d>> : d \in 1..MaxDim} \cup {<<n, d, e>> : d \in 1..MaxDim, e \in 1..MaxDim}

\* The tensor of a shape whose elements are 1, 2, ... in row-major order.
Iota(shape) == Tensor(shape, [i \in 1..Prod(shape) |-> i])

\* Keyword arguments of n rows: "a" alone, or "a" and "b" behind the context.
FirstValueKwargs(n) ==
    {<<Item("a", Iota(sa))>> : sa \in ShapesOf(n)}
    \cup {<<ContextItem, Item("a", Iota(sa)), Item("b", Iota(sb))>> :
              sa \in ShapesOf(n), sb \in ShapesOf(n)}

InitFirstValue ==
    /\ pc = "ready"
    /\ stage = "first_value"
    /\ req_list = <<>>
    /\ kwargs \in UNION {FirstValueKwargs(n) : n \in 1..MaxBatch}
    /\ keys \in {<<"a">>, <<"b">>, <<"b", "a">>}
    /\ defaults = <<>>
    /\ config = NoConfig
    /\ calls = <<>>
    /\ status = "ok"
    /\ result = <<>>

SpecFirst == InitFirstValue /\ [][FirstValueDecorator]_vars

\* --------------------------------------------- properties of first_value

\* C10: for every configured key (present, with at least one row) the wrapped
\* function receives the tensor's first row: as a bare scalar when every
\* dimension of the row has size 1, a row without dimensions included, and
\* as the reduced-rank array otherwise; the other inputs pass unchanged.
C10_FirstRowOrScalar ==
    (/\ pc = "done" /\ stage = "first_value"
     /\ \A i \in DOMAIN keys : HasKey(TensorInputs(kwargs), keys[i])) =>
        /\ status = "ok"
        /\ Len(calls) = 1
        /\ \A k \in DOMAIN kwargs :
               LET t == kwargs[k].t
                   got == calls[1].args[k]
               IN  /\ got.name = kwargs[k].name
                   /\ IF kwargs[k].name \notin Range(keys)
                      THEN got.t = t /\ ~got.scalar
                      ELSE IF \A d \in 2..Len(t.shape) : t.shape[d] = 1
                      THEN got.scalar /\ got.t.data = <<t.data[1]>>
                      ELSE /\ ~got.scalar
                           /\ got.t.shape = Tail(t.shape)
                           /\ got.t.data = RowData(t, 0)

====
